---- MODULE Spec2Model ----
(***************************************************************************)
(* One-time-code verification server (src/index.js) and the show-code      *)
(* utility (src/unnamed/part_000).                                         *)
(*                                                                         *)
(* Strings are sequences of one-character strings, byte buffers are        *)
(* sequences of 0..255 (index i of the source is index i+1 here).          *)
(***************************************************************************)
EXTENDS Integers, Sequences, FiniteSets, TLC

\* ------------------------------------------------------------------ bounds
\* Clock granularity and horizon (milliseconds).
TickMs == 500
MaxNowMs == 2000
\* Largest configured CODE_STEP_SECONDS and DRIFT_STEPS explored.
MaxStep == 2
MaxDrift == 2
\* Session ids a client may bring in its cookie without the server having
\* issued them, and the number of ids makeSid may issue.
NumCookies == 1
MaxGen == 1
\* Verify requests handled in one run.
MaxRequests == 3
\* Ids makeSid may issue in a run of requests without a cookie (SpecAnon).
MaxAnon == 3
\* Server processes sharing data.db, and the verify requests they handle
\* in one run (SpecRace).
NumProcs == 2
MaxRaceRequests == 2

\* ------------------------------------------------------- program constants
\* default `digits = 6` of totpForCounter, and the `code.length < 6` check.
Digits == 6
MinLen == 6
\* digest length of SHA-256 / HMAC-SHA256.
HashLen == 32

\* ------------------------------------------------------------ text helpers
DigitChars == <<"0", "1", "2", "3", "4", "5", "6", "7", "8", "9">>

RECURSIVE SumSeq(_)
SumSeq(s) == IF s = <<>> THEN 0 ELSE s[1] + SumSeq(Tail(s))

\* String(n) for an integer n >= 0: the decimal digits, no leading zero.
RECURSIVE NumToString(_)
NumToString(n) ==
  IF n < 10 THEN <<DigitChars[n + 1]>>
  ELSE Append(NumToString(n \div 10), DigitChars[(n % 10) + 1])

\* Variant of padStart that pads nothing.
padNone(str, width, ch) == str

\* str.padStart(width, ch)
RECURSIVE padStart(_, _, _)
padStart(str, width, ch) ==
  IF Len(str) >= width THEN str ELSE padStart(<<ch>> \o str, width, ch)

\* UTF-8 code of the characters seeds are made of.
CharCode(c) ==
  CASE c = "a" -> 97 [] c = "b" -> 98 [] c = "c" -> 99 [] OTHER -> 63

\* Buffer.from(str, 'utf8')
textToBytes(str) == [i \in 1..Len(str) |-> CharCode(str[i])]

\* big-endian 8 bytes of num; `num & 0xff` is num mod 256 and
\* Math.floor(num / 256) is floor division, also for negative num.
RECURSIVE BytesBE(_, _)
BytesBE(num, n) ==
  IF n = 0 THEN <<>> ELSE Append(BytesBE(num \div 256, n - 1), num % 256)

numTo8ByteBE(num) == BytesBE(num, 8)

\* ------------------------------------------------------- crypto primitives
\* crypto.createHash('sha256') and crypto.createHmac('sha256') are library
\* code.  They are modelled as fixed deterministic functions with a 32-byte
\* result: a digest that depends on every input byte, and a keyed MAC whose
\* collision pattern depends on the key, so that some keys give distinct
\* codes to neighbouring counters and others make neighbouring codes collide.
Sha256(bytes) ==
  [i \in 1..HashLen |-> (SumSeq(bytes) * i + Len(bytes)) % 256]

deriveKeyBytes(seed) == Sha256(textToBytes(seed))

MacPeriod(keyBytes) ==
  IF keyBytes[1] % 4 = 0 THEN 2048 ELSE (keyBytes[1] % 4) + 1

hmacSha256(keyBytes, msgBytes) ==
  LET m == SumSeq(msgBytes) % MacPeriod(keyBytes)
  IN  [i \in 1..HashLen |-> ((m + 1) * (37 * i + 11) + keyBytes[i]) % 256]

\* ----------------------------------------------------------- CodeGenerator
\* offset = last byte & 0x0f; 31 bits starting at offset.  The four terms
\* occupy disjoint bit ranges and the first is below 2^31, so `|` is `+`
\* and `>>> 0` leaves the value as it is.
\* hmacBuf[hmacBuf.length - 1] & 0x0f
truncOffset(hmacBuf) == hmacBuf[Len(hmacBuf)] % 16

\* The indices of hmacBuf (counted from 0, as the source does) that
\* dynamicTruncate reads besides the last one.
truncReads(hmacBuf) ==
  {truncOffset(hmacBuf) + k : k \in 0..3}

dynamicTruncate(hmacBuf) ==
  LET offset == truncOffset(hmacBuf)
  IN  (hmacBuf[offset + 1] % 128) * 16777216
      + hmacBuf[offset + 2] * 65536
      + hmacBuf[offset + 3] * 256
      + hmacBuf[offset + 4]

\* String(bin % mod).padStart(digits, '0') for mod = 10 ** digits
codeOfBin(bin, digits) ==
  LET mod == 10 ^ digits
  IN  padStart(NumToString(bin % mod), digits, "0")

totp(seed, counter, digits) ==
  LET key == deriveKeyBytes(seed)
      msg == numTo8ByteBE(counter)
      mac == hmacSha256(key, msg)
      bin == dynamicTruncate(mac)
  IN  codeOfBin(bin, digits)

\* process.env.PROCTOR_SEED || ''
Seeds == {<<>>, <<"a">>, <<"c">>}

\* The counters a run can ask a code for, and their codes (computed once).
Counters ==
  (0 - ((MaxNowMs \div 1000) + MaxDrift + 2))
    ..((MaxNowMs \div 1000) + MaxDrift + 2)

CodeTable ==
  [seed \in Seeds |-> [counter \in Counters |-> totp(seed, counter, Digits)]]

\* totpForCounter(seed, counter) with the default digits = 6
totpForCounter(seed, counter) == CodeTable[seed][counter]

\* ------------------------------------------------------------------- state
VARIABLES
  PROCTOR_SEED,       \* configuration, read once at start
  CODE_STEP_SECONDS,
  DRIFT_STEPS,
  now,                \* Date.now(), milliseconds
  used_codes,         \* rows of table used_codes
  genCount,           \* session ids issued by makeSid so far
  reply,              \* the request answered by the latest step, with
                      \* its response; none after any other step
  accepts,            \* history: <<sid, window, code>> -> number of 200 replies
  usedReplies,        \* history: <<sid, window>> pairs answered 409
  nreq,               \* verify requests handled so far
  proc,               \* SpecRace: each server process's position and locals
  shown,              \* SpecShow: what show-code printed last
  calc                \* SpecPure: arguments and results of a pure function

vars == <<PROCTOR_SEED, CODE_STEP_SECONDS, DRIFT_STEPS, now, used_codes,
          genCount, reply, accepts, usedReplies, nreq, proc, shown, calc>>

\* What the server's routes never touch.
aside == <<shown, calc>>

config == <<PROCTOR_SEED, CODE_STEP_SECONDS, DRIFT_STEPS>>

Procs == 1..NumProcs

\* ---------------------------------------------------------------- sessions
NoCookie == <<"none", 0>>
CookieSids == {<<"cookie", i>> : i \in 1..NumCookies}

\* Variant of makeSid that returns the same id every time.
makeSidFixed(n) == <<"gen", 1>>

\* crypto.randomBytes(16).toString('hex'): the n-th id issued; ids issued
\* are taken to be distinct from each other and from the clients' own.
makeSid(n) == <<"gen", n + 1>>

IssuedSids == {makeSid(k) : k \in 0..(genCount - 1)}

\* cookies['sid'] of a request: absent, or any id the client holds.
Cookies == {NoCookie} \cup CookieSids \cup IssuedSids

\* ------------------------------------------------------------- WindowClock
\* a % b of JavaScript for integers, b # 0: the sign is the dividend's.
JsRem(a, b) ==
  LET m == IF b < 0 THEN 0 - b ELSE b
  IN  IF a >= 0 THEN a % m ELSE 0 - ((0 - a) % m)

\* Variant of currentWindow that takes the remainder for the quotient.
currentWindowRem(nowMs, stepSec) == (nowMs \div 1000) % stepSec

\* Math.floor of the quotient, also for a negative stepSec.
currentWindow(nowMs, stepSec) == (nowMs \div 1000) \div stepSec

\* Variants of validCodes: one that widens the tolerance by a step, one
\* that reports the seconds elapsed in the window instead of those left.
validCodesWide(seed, nowMs) ==
  LET ctr == (nowMs \div 1000) \div CODE_STEP_SECONDS
  IN  [window |-> ctr,
       codes |-> <<totpForCounter(seed, ctr - (DRIFT_STEPS + 1)),
                   totpForCounter(seed, ctr),
                   totpForCounter(seed, ctr + (DRIFT_STEPS + 1))>>,
       expiresIn |-> CODE_STEP_SECONDS
                       - ((nowMs \div 1000) % CODE_STEP_SECONDS)]

validCodesElapsed(seed, nowMs) ==
  LET ctr == (nowMs \div 1000) \div CODE_STEP_SECONDS
  IN  [window |-> ctr,
       codes |-> <<totpForCounter(seed, ctr - DRIFT_STEPS),
                   totpForCounter(seed, ctr),
                   totpForCounter(seed, ctr + DRIFT_STEPS)>>,
       expiresIn |-> (nowMs \div 1000) % CODE_STEP_SECONDS]

\* The {window, codes, expiresIn} object; CODE_STEP_SECONDS and DRIFT_STEPS
\* are the process-wide configuration.
validCodes(seed, nowMs) ==
  LET ctr == currentWindow(nowMs, CODE_STEP_SECONDS)
  IN  [window |-> ctr,
       codes |-> <<totpForCounter(seed, ctr - DRIFT_STEPS),
                   totpForCounter(seed, ctr),
                   totpForCounter(seed, ctr + DRIFT_STEPS)>>,
       expiresIn |-> CODE_STEP_SECONDS
                       - JsRem(nowMs \div 1000, CODE_STEP_SECONDS)]

\* ------------------------------------------------------------- ReplayGuard
\* Variants of the lookup: one that never finds a row, one that forgets
\* the window column.
SelectSkipped(db, win, sid) == FALSE
SelectAnyWindow(db, win, sid) == \E r \in db : r.sid = sid

\* SELECT 1 FROM used_codes WHERE window = ? AND sid = ?
SelectUsed(db, win, sid) == \E r \in db : r.window = win /\ r.sid = sid

\* Variant of the insert that writes nothing.
InsertDropped(db, win, sid, ts) == db

\* Variant of the insert that keys the row by the preceding window.
InsertNeighbour(db, win, sid, ts) ==
  IF \E r \in db : r.window = win - 1 /\ r.sid = sid
  THEN db
  ELSE db \cup {[window |-> win - 1, sid |-> sid, created_at |-> ts]}

\* INSERT OR IGNORE INTO used_codes (window, sid, created_at) VALUES (?,?,?)
\* under PRIMARY KEY (window, sid).
InsertOrIgnore(db, win, sid, ts) ==
  IF \E r \in db : r.window = win /\ r.sid = sid
  THEN db
  ELSE db \cup {[window |-> win, sid |-> sid, created_at |-> ts]}

\* ------------------------------------------------------------ request body
\* req.body.code: a JSON value.  t is its type, v its characters (for a
\* number, its decimal digits).
Str(chars) == [t |-> "string", v |-> chars]
Undefined == [t |-> "undefined", v |-> <<>>]
Num(chars) == [t |-> "number", v |-> chars]

\* !code
Falsy(code) ==
  \/ code.t = "undefined"
  \/ code.t = "string" /\ code.v = <<>>
  \/ code.t = "number" /\ code.v = <<"0">>

\* !code || typeof code !== 'string' || code.length < 6
BadCode(code) == Falsy(code) \/ code.t # "string" \/ Len(code.v) < MinLen

\* Variant of the seed check that lets an empty seed through.
SeedNeverUnset(seed) == FALSE

\* !PROCTOR_SEED
SeedUnset(seed) == seed = <<>>

\* codes.includes(code)
Includes(codes, code) == \E i \in 1..Len(codes) : codes[i] = code.v

\* The seed a client derives its codes from: the server's, or, when the
\* server has none, one of its own.
ClientSeed == IF PROCTOR_SEED = <<>> THEN <<"c">> ELSE PROCTOR_SEED

\* Codes a client may submit while the clock shows nowMs: values that are
\* no string of six digits, and the codes of the counters up to one step
\* beyond the drift range on either side.
BodyCodes(nowMs) ==
  LET w == currentWindow(nowMs, CODE_STEP_SECONDS)
      near == {totpForCounter(ClientSeed, w + k) :
                 k \in (0 - (DRIFT_STEPS + 1))..(DRIFT_STEPS + 1)}
  IN  {Undefined, Num(<<"1", "2", "3", "4", "5", "6">>),
       Str(<<"1", "2", "3", "4", "5">>),
       Str(<<"1", "2", "a", "4", "5", "6">>),
       Str(Append(totpForCounter(ClientSeed, w), "7"))}
      \cup {Str(c) : c \in near}

\* --------------------------------------------------------------- responses
InvalidInputRes == [status |-> 400, ok |-> FALSE, error |-> "invalid_code"]
NotConfiguredRes ==
  [status |-> 500, ok |-> FALSE, error |-> "server_not_configured"]
AlreadyUsedRes(win, expiresIn) ==
  [status |-> 409, ok |-> FALSE, error |-> "already_used",
   window |-> win, expiresInSeconds |-> expiresIn]
InvalidCodeRes(win, expiresIn) ==
  [status |-> 401, ok |-> FALSE, error |-> "invalid_code",
   window |-> win, expiresInSeconds |-> expiresIn]
AcceptedRes(win, expiresIn) ==
  [status |-> 200, ok |-> TRUE, window |-> win,
   expiresInSeconds |-> expiresIn]

\* The outcome a response stands for.
Outcome(res) ==
  CASE res.status = 200 -> "Accepted"
    [] res.status = 409 -> "AlreadyUsed"
    [] res.status = 401 -> "InvalidCode"
    [] res.status = 500 -> "ServerMisconfigured"
    [] OTHER -> "InvalidInput"

\* ------------------------------------------------------------------ history
Bump(bag, key) ==
  IF key \in DOMAIN bag THEN [bag EXCEPT ![key] = @ + 1]
  ELSE bag @@ (key :> 1)

NoReply == [kind |-> "none"]
NoShown == [kind |-> "none"]
NoCalc == [kind |-> "none"]

Answer(sid, fresh, code, res) ==
  /\ reply' = [kind |-> "verify", sid |-> sid, setCookie |-> fresh,
               code |-> code, res |-> res]
  /\ accepts' = IF res.status = 200
                THEN Bump(accepts, <<sid, res.window, code.v>>)
                ELSE accepts
  /\ usedReplies' = IF res.status = 409
                    THEN usedReplies \cup {<<sid, res.window>>}
                    ELSE usedReplies
  /\ nreq' = nreq + 1

\* ------------------------------------------------------------------- Init
Init ==
  /\ PROCTOR_SEED \in Seeds
  /\ CODE_STEP_SECONDS \in 1..MaxStep
  /\ DRIFT_STEPS \in 0..MaxDrift
  /\ now = 0
  /\ used_codes = {}
  /\ genCount = 0
  /\ reply = NoReply
  /\ accepts = <<>>
  /\ usedReplies = {}
  /\ nreq = 0
  /\ proc = [p \in Procs |-> [pc |-> "idle"]]
  /\ shown = NoShown
  /\ calc = NoCalc

\* ----------------------------------------------------------------- actions
\* The clock advances.
Tick ==
  /\ now + TickMs <= MaxNowMs
  /\ now' = now + TickMs
  /\ reply' = NoReply
  /\ UNCHANGED <<config, used_codes, genCount, accepts, usedReplies, nreq,
                 proc, aside>>

\* GET /api/session
GetSession(cookie) ==
  /\ cookie = NoCookie => genCount < MaxGen
  /\ genCount' = IF cookie = NoCookie THEN genCount + 1 ELSE genCount
  /\ reply' = [kind |-> "session",
               sid |-> IF cookie = NoCookie THEN makeSid(genCount) ELSE cookie,
               setCookie |-> (cookie = NoCookie),
               res |-> [status |-> 200, ok |-> TRUE]]
  /\ UNCHANGED <<config, now, used_codes, accepts, usedReplies, nreq, proc,
                 aside>>

\* Variant of the handler that records the session before it compares the
\* code.
HandleVerifyEager(sid, code, nowMs, db) ==
  IF BadCode(code) THEN [res |-> InvalidInputRes, db |-> db]
  ELSE IF SeedUnset(PROCTOR_SEED) THEN [res |-> NotConfiguredRes, db |-> db]
  ELSE
    LET vc == validCodes(PROCTOR_SEED, nowMs)
    IN  IF SelectUsed(db, vc.window, sid)
        THEN [res |-> AlreadyUsedRes(vc.window, vc.expiresIn), db |-> db]
        ELSE IF ~Includes(vc.codes, code)
        THEN [res |-> InvalidCodeRes(vc.window, vc.expiresIn),
              db |-> InsertOrIgnore(db, vc.window, sid, nowMs)]
        ELSE [res |-> AcceptedRes(vc.window, vc.expiresIn),
              db |-> InsertOrIgnore(db, vc.window, sid, nowMs)]

\* The response of POST /api/verify-code and the table it leaves, for a
\* handler that runs from its first statement to its last without another
\* handler in between.
HandleVerify(sid, code, nowMs, db) ==
  IF BadCode(code) THEN [res |-> InvalidInputRes, db |-> db]
  ELSE IF SeedUnset(PROCTOR_SEED) THEN [res |-> NotConfiguredRes, db |-> db]
  ELSE
    LET vc == validCodes(PROCTOR_SEED, nowMs)
    IN  IF SelectUsed(db, vc.window, sid)
        THEN [res |-> AlreadyUsedRes(vc.window, vc.expiresIn), db |-> db]
        ELSE IF ~Includes(vc.codes, code)
        THEN [res |-> InvalidCodeRes(vc.window, vc.expiresIn), db |-> db]
        ELSE [res |-> AcceptedRes(vc.window, vc.expiresIn),
              db |-> InsertOrIgnore(db, vc.window, sid, nowMs)]

\* POST /api/verify-code, handled to completion.
Serve(cookie, code) ==
  LET fresh == cookie = NoCookie
      sid == IF fresh THEN makeSid(genCount) ELSE cookie
      out == HandleVerify(sid, code, now, used_codes)
  IN  /\ nreq < MaxRequests
      /\ genCount' = IF fresh THEN genCount + 1 ELSE genCount
      /\ used_codes' = out.db
      /\ Answer(sid, fresh, code, out.res)
      /\ UNCHANGED <<config, now, proc, aside>>

VerifyCode(cookie, code) ==
  /\ cookie = NoCookie => genCount < MaxGen
  /\ Serve(cookie, code)

\* A request that carries no sid cookie.
VerifyAnon(code) ==
  /\ genCount < MaxAnon
  /\ Serve(NoCookie, code)

Next ==
  \/ Tick
  \/ \E cookie \in Cookies : GetSession(cookie)
  \/ \E cookie \in Cookies : \E code \in BodyCodes(now) :
       VerifyCode(cookie, code)

Spec == Init /\ [][Next]_vars

\* ------------------------------------------- several server processes
\* Two processes started from the same directory open the same data.db.
\* Each runs its handlers one at a time, but the statements of handlers in
\* different processes interleave at the database calls: the SELECT of
\* line 156 and the INSERT OR IGNORE of line 167 are separate statements.

\* Lines 139-165: everything up to the INSERT.  A request that is answered
\* 400, 500, 409 or 401 ends here; another one carries its locals on.
RaceSelect(p, cookie, code) ==
  LET fresh == cookie = NoCookie
      sid == IF fresh THEN makeSid(genCount) ELSE cookie
      vc == validCodes(PROCTOR_SEED, now)
      used == SelectUsed(used_codes, vc.window, sid)
      res == IF BadCode(code) THEN InvalidInputRes
             ELSE IF SeedUnset(PROCTOR_SEED) THEN NotConfiguredRes
             ELSE IF used THEN AlreadyUsedRes(vc.window, vc.expiresIn)
             ELSE InvalidCodeRes(vc.window, vc.expiresIn)
      goesOn == /\ ~BadCode(code)
                /\ ~SeedUnset(PROCTOR_SEED)
                /\ ~used
                /\ Includes(vc.codes, code)
  IN  /\ proc[p].pc = "idle"
      /\ nreq < MaxRaceRequests
      /\ fresh => genCount < MaxGen
      /\ genCount' = IF fresh THEN genCount + 1 ELSE genCount
      /\ IF goesOn
         THEN /\ proc' = [proc EXCEPT ![p] =
                    [pc |-> "selected", sid |-> sid, fresh |-> fresh,
                     code |-> code, win |-> vc.window,
                     expiresIn |-> vc.expiresIn]]
              /\ reply' = NoReply
              /\ nreq' = nreq + 1
              /\ UNCHANGED <<accepts, usedReplies>>
         ELSE /\ Answer(sid, fresh, code, res)
              /\ UNCHANGED proc
      /\ UNCHANGED <<config, now, used_codes, aside>>

\* Lines 167-169: the INSERT OR IGNORE, whose result is not looked at, and
\* the 200 response.
RaceInsert(p) ==
  LET l == proc[p]
  IN  /\ l.pc = "selected"
      /\ used_codes' = InsertOrIgnore(used_codes, l.win, l.sid, now)
      /\ reply' = [kind |-> "verify", sid |-> l.sid, setCookie |-> l.fresh,
                   code |-> l.code, res |-> AcceptedRes(l.win, l.expiresIn)]
      /\ accepts' = Bump(accepts, <<l.sid, l.win, l.code.v>>)
      /\ proc' = [proc EXCEPT ![p] = [pc |-> "idle"]]
      /\ UNCHANGED <<config, now, genCount, usedReplies, nreq, aside>>

NextRace ==
  \/ Tick
  \/ \E cookie \in Cookies : GetSession(cookie)
  \/ \E p \in Procs : \E cookie \in Cookies : \E code \in BodyCodes(now) :
       RaceSelect(p, cookie, code)
  \/ \E p \in Procs : RaceInsert(p)

SpecRace == Init /\ [][NextRace]_vars

\* ------------------------------------------------------ show-code utility
\* The utility script carries its own copies of the code functions; they
\* are translated from the script, sharing only the crypto library.
show_textToBytes(str) == [i \in 1..Len(str) |-> CharCode(str[i])]

RECURSIVE show_numTo8ByteBE_loop(_, _)
show_numTo8ByteBE_loop(num, i) ==
  IF i < 0 THEN <<>>
  ELSE Append(show_numTo8ByteBE_loop(num \div 256, i - 1), num % 256)

show_numTo8ByteBE(num) == show_numTo8ByteBE_loop(num, 7)

show_deriveKeyBytes(seed) == Sha256(show_textToBytes(seed))

show_hmacSha256(key, msg) == hmacSha256(key, msg)

show_dynamicTruncate(h) ==
  LET o == h[Len(h)] % 16
  IN  (h[o + 1] % 128) * 16777216 + h[o + 2] * 65536 + h[o + 3] * 256
      + h[o + 4]

show_totp(seed, counter, digits) ==
  LET k == show_deriveKeyBytes(seed)
      m == show_numTo8ByteBE(counter)
      mac == show_hmacSha256(k, m)
      bin == show_dynamicTruncate(mac)
  IN  padStart(NumToString(bin % (10 ^ digits)), digits, "0")

\* The codes of the utility, computed once.
ShowTable ==
  [seed \in Seeds |->
     [counter \in Counters |-> show_totp(seed, counter, Digits)]]

\* Variant of the output that prints the first neighbour as the code.
showOutputFirst(seed, stepSec, drift, nowMs) ==
  LET t == nowMs \div 1000
      ctr == t \div stepSec
      codes == <<ShowTable[seed][ctr - drift], ShowTable[seed][ctr],
                 ShowTable[seed][ctr + drift]>>
      expiresIn == stepSec - JsRem(t, stepSec)
  IN  [kind |-> "shown", at |-> nowMs, window |-> ctr, code |-> codes[1],
       neighbors |-> codes, expiresIn |-> expiresIn]

\* Lines 23-29 of the script: the object it prints (codes[1] of the script
\* is the second element), with the instant it was computed at.
showOutput(seed, stepSec, drift, nowMs) ==
  LET t == nowMs \div 1000
      ctr == t \div stepSec
      codes == <<ShowTable[seed][ctr - drift], ShowTable[seed][ctr],
                 ShowTable[seed][ctr + drift]>>
      expiresIn == stepSec - JsRem(t, stepSec)
  IN  [kind |-> "shown", at |-> nowMs, window |-> ctr, code |-> codes[2],
       neighbors |-> codes, expiresIn |-> expiresIn]

\* One run of the script, with the environment of the server.
ShowCode ==
  /\ PROCTOR_SEED # <<>>
  /\ shown' = showOutput(PROCTOR_SEED, CODE_STEP_SECONDS, DRIFT_STEPS, now)
  /\ calc' = calc
  /\ UNCHANGED <<config, now, used_codes, genCount, reply, accepts,
                 usedReplies, nreq, proc>>

\* The printed code is submitted to the server.
VerifyShown(cookie) ==
  /\ shown # NoShown
  /\ VerifyCode(cookie, Str(shown.code))

NextShow ==
  \/ Tick
  \/ ShowCode
  \/ \E cookie \in Cookies : VerifyShown(cookie)

SpecShow == Init /\ [][NextShow]_vars

\* ------------------------------------------- non-positive CODE_STEP_SECONDS
\* The server started with CODE_STEP_SECONDS set to a negative number
\* (Number(process.env.CODE_STEP_SECONDS), line 15); the routes are the same.
InitConfig ==
  /\ PROCTOR_SEED \in Seeds
  /\ CODE_STEP_SECONDS \in (0 - MaxStep)..(0 - 1)
  /\ DRIFT_STEPS \in 0..MaxDrift
  /\ now = 0
  /\ used_codes = {}
  /\ genCount = 0
  /\ reply = NoReply
  /\ accepts = <<>>
  /\ usedReplies = {}
  /\ nreq = 0
  /\ proc = [p \in Procs |-> [pc |-> "idle"]]
  /\ shown = NoShown
  /\ calc = NoCalc

SpecConfig == InitConfig /\ [][Next]_vars

\* ------------------------------------------------- clients without cookies
\* Every verify request comes without a sid cookie.
NextAnon ==
  \/ Tick
  \/ \E code \in BodyCodes(now) : VerifyAnon(code)

SpecAnon == Init /\ [][NextAnon]_vars

\* ---------------------------------------------------- the pure functions
\* dynamicTruncate with the code derived from it, and currentWindow, apart
\* from the server: the arguments are drawn at the start, one step applies
\* the function.

\* 32-byte MACs: every low nibble and some high nibbles of the last byte,
\* over constant, extreme and mixed contents.
MacSamples ==
  {[i \in 1..HashLen |-> IF i = HashLen THEN last ELSE (a * i + b) % 256] :
     last \in (0..15) \cup {127, 240, 255},
     a \in {0, 7, 37}, b \in {0, 128, 255}}

\* Instants (milliseconds) around the second and window boundaries.
InstantSamples ==
  {s * 1000 + d : s \in 0..(2 * MaxStep + 1), d \in {0, 1, 500, 999}}

CalcInputs ==
  {[kind |-> "truncate", mac |-> m, digits |-> d, done |-> FALSE] :
     m \in MacSamples, d \in 1..9}
  \cup
  {[kind |-> "window", now1 |-> n1, now2 |-> n2, stepSec |-> st,
    done |-> FALSE] :
     n1 \in InstantSamples, n2 \in InstantSamples, st \in 1..(MaxStep + 1)}

InitPure ==
  /\ PROCTOR_SEED = <<>>
  /\ CODE_STEP_SECONDS = 1
  /\ DRIFT_STEPS = 0
  /\ now = 0
  /\ used_codes = {}
  /\ genCount = 0
  /\ reply = NoReply
  /\ accepts = <<>>
  /\ usedReplies = {}
  /\ nreq = 0
  /\ proc = [p \in Procs |-> [pc |-> "idle"]]
  /\ shown = NoShown
  /\ calc \in CalcInputs

notCalc == <<config, now, used_codes, genCount, reply, accepts, usedReplies,
             nreq, proc, shown>>

\* Lines 92-94 of totpForCounter applied to a MAC.
Truncate ==
  /\ calc.kind = "truncate"
  /\ ~calc.done
  /\ calc' = [kind |-> "truncate", mac |-> calc.mac, digits |-> calc.digits,
              done |-> TRUE,
              offset |-> truncOffset(calc.mac),
              reads |-> truncReads(calc.mac),
              bin |-> dynamicTruncate(calc.mac),
              code |-> codeOfBin(dynamicTruncate(calc.mac), calc.digits)]
  /\ UNCHANGED notCalc

\* currentWindow at two instants.
Windows ==
  /\ calc.kind = "window"
  /\ ~calc.done
  /\ calc' = [kind |-> "window", now1 |-> calc.now1, now2 |-> calc.now2,
              stepSec |-> calc.stepSec, done |-> TRUE,
              win1 |-> currentWindow(calc.now1, calc.stepSec),
              win2 |-> currentWindow(calc.now2, calc.stepSec)]
  /\ UNCHANGED notCalc

NextPure == Truncate \/ Windows

SpecPure == InitPure /\ [][NextPure]_vars

\* =================================================================== claims
\* A step that answers one verify request.
VerifyStep == nreq' = nreq + 1

\* The request-time window.
Win == (now \div 1000) \div CODE_STEP_SECONDS

\* Number of 200 replies session sid got with window win.
AcceptKeys(sid, win) == {k \in DOMAIN accepts : k[1] = sid /\ k[2] = win}

\* submittedCode is a string of exactly six decimal digits.
WellFormed(code) ==
  /\ code.t = "string"
  /\ Len(code.v) = Digits
  /\ \A i \in 1..Len(code.v) : \E d \in 1..10 : code.v[i] = DigitChars[d]

\* The three codes the server compares with at window w.
Compared(w) ==
  {totpForCounter(PROCTOR_SEED, w - DRIFT_STEPS),
   totpForCounter(PROCTOR_SEED, w),
   totpForCounter(PROCTOR_SEED, w + DRIFT_STEPS)}

\* The codes of the whole drift range of window w.
DriftRange(w) ==
  {totpForCounter(PROCTOR_SEED, w + k) :
     k \in (0 - DRIFT_STEPS)..DRIFT_STEPS}

\* C1 -- Replay protection: over any sequence of verify requests, each
\* handled to completion, and any advance of the clock, at most one request
\* of a session is answered Accepted with a given window; the table holds at
\* most one row per (window, sid).
ReplayProtection ==
  /\ \A k1, k2 \in DOMAIN accepts :
       (k1[1] = k2[1] /\ k1[2] = k2[2]) => (k1 = k2 /\ accepts[k1] = 1)
  /\ \A r1, r2 \in used_codes :
       (r1.window = r2.window /\ r1.sid = r2.sid) => r1 = r2

\* A session accepted in a window submits an accepted code again in that
\* window, after the clock has moved, and is refused.
ReplayRefused ==
  /\ reply.kind = "verify"
  /\ reply.res.status = 409
  /\ reply.code.v \in Compared(Win)
  /\ AcceptKeys(reply.sid, Win) # {}
  /\ \E r \in used_codes :
       r.sid = reply.sid /\ r.window = Win /\ r.created_at < now

\* C2 -- Race safety: of two verify calls for the same unconsumed
\* (session, window) whose SELECT and INSERT steps interleave, exactly one is
\* answered Accepted and the other AlreadyUsed: a call that reaches its
\* INSERT after the other call was accepted is answered 409.
RaceSafety ==
  [][\A p \in Procs :
       (/\ proc[p].pc = "selected"
        /\ proc'[p].pc = "idle"
        /\ AcceptKeys(proc[p].sid, proc[p].win) # {})
       => reply'.res.status = 409]_vars

\* C3 -- Single consumption: a fresh session (one without any row) that
\* submits one of the accepted codes of the current window W is answered
\* Accepted; once it has been accepted in W, every later verify in W with
\* a code valid for W (the code of W, of W-drift, of W+drift or of any
\* window between) is answered AlreadyUsed.
SingleConsumption ==
  [][(/\ VerifyStep
      /\ PROCTOR_SEED # <<>>
      /\ reply'.code.t = "string")
     => /\ (/\ reply'.code.v \in Compared(Win)
            /\ \A r \in used_codes : r.sid # reply'.sid)
          => (reply'.res.status = 200 /\ reply'.res.window = Win)
        /\ (/\ reply'.code.v \in Compared(Win) \cup DriftRange(Win)
            /\ AcceptKeys(reply'.sid, Win) # {})
          => (reply'.res.status = 409 /\ reply'.res.window = Win)]_vars

\* A session accepted with the code of W is refused, in W, with the code of
\* the neighbouring window W+drift.
SecondUseRefused ==
  /\ reply.kind = "verify"
  /\ reply.res.status = 409
  /\ DRIFT_STEPS > 0
  /\ reply.code.v = totpForCounter(PROCTOR_SEED, Win + DRIFT_STEPS)
  /\ reply.code.v # totpForCounter(PROCTOR_SEED, Win)
  /\ <<reply.sid, Win, totpForCounter(PROCTOR_SEED, Win)>> \in DOMAIN accepts

\* C4 -- A code is redeemed at most once per session: for every session and
\* every code value, at most one verify of that session with that code is
\* answered Accepted, whatever the windows the requests fall in.
RedeemedOncePerSession ==
  \A k1, k2 \in DOMAIN accepts :
    (k1[1] = k2[1] /\ k1[3] = k2[3]) => (k1 = k2 /\ accepts[k1] = 1)

\* C5 -- The accepted set covers the drift range: a session without a row
\* for the current window W that submits the code of W+k, for any k with
\* -drift <= k <= drift, is answered Accepted.
DriftRangeAccepted ==
  [][(/\ VerifyStep
      /\ PROCTOR_SEED # <<>>
      /\ reply'.code.t = "string"
      /\ reply'.code.v \in DriftRange(Win)
      /\ ~\E r \in used_codes : r.window = Win /\ r.sid = reply'.sid)
     => reply'.res.status = 200]_vars

\* The codes of the counters one step beyond the drift range of window w.
Beyond(w) ==
  {totpForCounter(PROCTOR_SEED, w + DRIFT_STEPS + 1),
   totpForCounter(PROCTOR_SEED, w - DRIFT_STEPS - 1)}

\* C6 -- Drift boundary: the code of counter W+drift+1 or W-drift-1, when it
\* differs from every accepted code of the current window W, is never
\* answered Accepted; a session without a row for W is answered InvalidCode,
\* and the table is unchanged.
DriftBoundary ==
  [][(/\ VerifyStep
      /\ PROCTOR_SEED # <<>>
      /\ reply'.code.t = "string"
      /\ reply'.code.v \in Beyond(Win)
      /\ reply'.code.v \notin Compared(Win))
     => /\ reply'.res.status # 200
        /\ used_codes' = used_codes
        /\ (~\E r \in used_codes : r.window = Win /\ r.sid = reply'.sid)
             => (reply'.res.status = 401 /\ reply'.res.window = Win)]_vars

\* The code of W+drift+1, distinct from the accepted codes, is answered 401.
BeyondRejected ==
  /\ reply.kind = "verify"
  /\ reply.res.status = 401
  /\ reply.code.v = totpForCounter(PROCTOR_SEED, Win + DRIFT_STEPS + 1)
  /\ reply.code.v \notin Compared(Win)
  /\ Win > 0

\* C7 -- Window rollover: a session answered Accepted or AlreadyUsed in
\* window W that, once the clock is in window W+1, submits the code of W+1
\* and has not been accepted in W+1, is answered Accepted.
WindowRollover ==
  [][(/\ VerifyStep
      /\ PROCTOR_SEED # <<>>
      /\ reply'.code = Str(totpForCounter(PROCTOR_SEED, Win))
      /\ \/ AcceptKeys(reply'.sid, Win - 1) # {}
         \/ <<reply'.sid, Win - 1>> \in usedReplies
      /\ AcceptKeys(reply'.sid, Win) = {})
     => /\ reply'.res.status = 200
        /\ reply'.res.window = Win
        /\ \E r \in used_codes' : r.window = Win /\ r.sid = reply'.sid]_vars

\* A session refused as AlreadyUsed in W is accepted in W+1.
RolledOver ==
  /\ reply.kind = "verify"
  /\ reply.res.status = 200
  /\ reply.code.v = totpForCounter(PROCTOR_SEED, Win)
  /\ <<reply.sid, Win - 1>> \in usedReplies
  /\ AcceptKeys(reply.sid, Win - 1) # {}

\* C8 -- Input validation: a verify whose submittedCode is not a string of
\* exactly six decimal digits is answered InvalidInput, whatever the secret,
\* the clock and the table, and leaves the table unchanged.
StrictValidation ==
  [][(VerifyStep /\ ~WellFormed(reply'.code))
     => (reply'.res.status = 400 /\ used_codes' = used_codes)]_vars

\* C9 -- Missing secret: with the secret unset, every verify whose input
\* passes validation is answered ServerMisconfigured, no verify is answered
\* Accepted, AlreadyUsed or InvalidCode, and the table never changes.
MissingSecret ==
  PROCTOR_SEED = <<>> =>
    /\ used_codes = {}
    /\ accepts = <<>>
    /\ reply.kind = "verify" =>
         /\ reply.res.status \in {400, 500}
         /\ WellFormed(reply.code) => reply.res.status = 500
         /\ Len(reply.code.v) >= MinLen /\ reply.code.t = "string"
              => reply.res.status = 500

\* With no secret, a six-digit code is answered 500 after the clock moved.
MisconfiguredReply ==
  /\ PROCTOR_SEED = <<>>
  /\ reply.kind = "verify"
  /\ WellFormed(reply.code)
  /\ reply.res.status = 500
  /\ now > 0

\* C10 -- Accepted, AlreadyUsed and InvalidCode carry
\* window = floor(floor(now/1000)/step) and
\* expiresInSeconds = step - (floor(now/1000) mod step); so
\* 1 <= expiresInSeconds <= step, the clock is in the same window
\* expiresInSeconds-1 seconds later and in window+1 expiresInSeconds seconds
\* later.
WindowAndExpiry ==
  (reply.kind = "verify" /\ reply.res.status \in {200, 409, 401}) =>
    LET sec == now \div 1000
        w == reply.res.window
        e == reply.res.expiresInSeconds
    IN  /\ w = sec \div CODE_STEP_SECONDS
        /\ e = CODE_STEP_SECONDS - (sec % CODE_STEP_SECONDS)
        /\ 1 <= e /\ e <= CODE_STEP_SECONDS
        /\ ((now + (e - 1) * 1000) \div 1000) \div CODE_STEP_SECONDS = w
        /\ ((now + e * 1000) \div 1000) \div CODE_STEP_SECONDS = w + 1

\* A reply in the last second of a two-second window, off the second mark.
LastSecondReply ==
  /\ reply.kind = "verify"
  /\ reply.res.status \in {200, 409, 401}
  /\ CODE_STEP_SECONDS > 1
  /\ reply.res.expiresInSeconds = 1
  /\ now % 1000 # 0

\* The number a string of decimal digits stands for.
DigitValue(ch) == (CHOOSE d \in 1..10 : DigitChars[d] = ch) - 1

RECURSIVE ParseDec(_)
ParseDec(str) ==
  IF str = <<>> THEN 0
  ELSE ParseDec(SubSeq(str, 1, Len(str) - 1)) * 10
       + DigitValue(str[Len(str)])

\* C11 -- Fixed width and truncation bounds: for every 32-byte MAC and
\* every digits in 1..9, the offset is the low nibble of the last byte and
\* at most 15, only indices offset..offset+3 (at most 18) are read, the
\* truncated value v is at least 0 and below 2^31, and the code is a string
\* of exactly `digits` decimal characters that stands for v mod 10^digits.
TruncationBounds ==
  (calc.kind = "truncate" /\ calc.done) =>
    /\ Len(calc.mac) = 32
    /\ calc.offset = calc.mac[32] % 16
    /\ calc.offset >= 0 /\ calc.offset <= 15
    /\ calc.reads = calc.offset..(calc.offset + 3)
    /\ \A i \in calc.reads : i <= 18
    /\ calc.bin >= 0 /\ calc.bin <= 2147483647
    /\ Len(calc.code) = calc.digits
    /\ \A i \in 1..Len(calc.code) :
         \E d \in 1..10 : calc.code[i] = DigitChars[d]
    /\ ParseDec(calc.code) = calc.bin % (10 ^ calc.digits)

\* A MAC whose last byte has low nibble 15, so that index 18 is read, cut
\* to a nine-digit code that needed padding.
TruncatedAtEnd ==
  /\ calc.kind = "truncate" /\ calc.done
  /\ calc.offset = 15
  /\ 18 \in calc.reads
  /\ calc.digits = 9
  /\ calc.code[1] = "0"
  /\ calc.bin > 0

\* C12 -- Window monotonicity: for a fixed positive stepSeconds and two
\* instants now1 <= now2, currentWindow(now1) <= currentWindow(now2).
WindowMonotone ==
  (calc.kind = "window" /\ calc.done /\ calc.now1 <= calc.now2) =>
    /\ calc.win1 <= calc.win2
    /\ calc.win1 >= 0

\* Two instants in different seconds of one window, and two a millisecond
\* apart across a window boundary.
WindowsCompared ==
  /\ calc.kind = "window" /\ calc.done
  /\ calc.stepSec > 1
  /\ calc.now1 < calc.now2
  /\ \/ calc.win1 = calc.win2 /\ calc.now2 - calc.now1 >= 1000
     \/ calc.win2 = calc.win1 + 1 /\ calc.now2 - calc.now1 = 1

\* C13 -- The show-code utility and the server agree: with the same
\* PROCTOR_SEED, CODE_STEP_SECONDS and DRIFT_STEPS, the utility's window,
\* code, neighbors and expiresIn are the server's validCodes window, middle
\* code, codes list and expiresIn of the same instant, and the printed code
\* submitted in that window by a session without a row for it is Accepted.
ShowCodeAgrees ==
  [][/\ (shown' # shown) =>
          LET vc == validCodes(PROCTOR_SEED, now)
          IN  /\ shown'.at = now
              /\ shown'.window = vc.window
              /\ shown'.code = vc.codes[2]
              /\ shown'.neighbors = vc.codes
              /\ shown'.expiresIn = vc.expiresIn
     /\ (/\ VerifyStep
         /\ shown # NoShown
         /\ reply'.code = Str(shown.code)
         /\ Win = shown.window
         /\ ~\E r \in used_codes : r.window = Win /\ r.sid = reply'.sid)
        => (reply'.res.status = 200 /\ reply'.res.window = shown.window)]_vars

\* The code printed in an earlier second of the window is accepted, and it
\* differs from its neighbours.
ShownCodeAccepted ==
  /\ shown # NoShown
  /\ reply.kind = "verify"
  /\ reply.code = Str(shown.code)
  /\ reply.res.status = 200
  /\ shown.at < now
  /\ shown.window = Win
  /\ shown.neighbors[1] # shown.code
  /\ shown.neighbors[3] # shown.code

\* C14 -- A non-positive stepSeconds is a fatal startup error: while the
\* configured CODE_STEP_SECONDS is <= 0 no verify request is processed: no
\* outcome is returned and no ledger record is written.
NonPositiveStepFatal ==
  (CODE_STEP_SECONDS <= 0) =>
    /\ nreq = 0
    /\ reply.kind # "verify"
    /\ used_codes = {}

\* Number of 200 replies given so far.
RECURSIVE CountAccepts(_)
CountAccepts(keys) ==
  IF keys = {} THEN 0
  ELSE LET k == CHOOSE x \in keys : TRUE
       IN  accepts[k] + CountAccepts(keys \ {k})

\* C15 -- Accepted corresponds one-to-one with inserted records: in every
\* reachable state the number of Accepted outcomes returned equals the
\* number of ledger records.
AcceptedIsInserted ==
  CountAccepts(DOMAIN accepts) = Cardinality(used_codes)

\* The rows of db with key (win, sid).
RowsOf(db, win, sid) == {r \in db : r.window = win /\ r.sid = sid}

ReplayKeyIsRequestWindow ==
  [][VerifyStep =>
       LET sid == reply'.sid
           st == reply'.res.status
       IN  /\ (/\ st = 200
               /\ DRIFT_STEPS > 0
               /\ reply'.code.v # totpForCounter(PROCTOR_SEED, Win))
             => /\ \E r \in used_codes' :
                     /\ used_codes' = used_codes \cup {r}
                     /\ r \notin used_codes
                     /\ r.window = Win /\ r.sid = sid
                /\ RowsOf(used_codes', Win - DRIFT_STEPS, sid)
                     = RowsOf(used_codes, Win - DRIFT_STEPS, sid)
                /\ RowsOf(used_codes', Win + DRIFT_STEPS, sid)
                     = RowsOf(used_codes, Win + DRIFT_STEPS, sid)
           /\ (st \notin {400, 500})
             => (st = 409 <=> RowsOf(used_codes, Win, sid) # {})]_vars

\* A session that holds the row of W-drift is accepted at W with the code
\* of W-drift, which is not the code of W; the row of W+drift is absent.
NeighbourCodeKeyedByNow ==
  /\ reply.kind = "verify"
  /\ reply.res.status = 200
  /\ DRIFT_STEPS > 0
  /\ reply.code.v = totpForCounter(PROCTOR_SEED, Win - DRIFT_STEPS)
  /\ reply.code.v # totpForCounter(PROCTOR_SEED, Win)
  /\ RowsOf(used_codes, Win - DRIFT_STEPS, reply.sid) # {}
  /\ RowsOf(used_codes, Win, reply.sid) # {}
  /\ RowsOf(used_codes, Win + DRIFT_STEPS, reply.sid) = {}

\* C18 -- Outcome precedence: the checks run in the order InvalidInput,
\* ServerMisconfigured, AlreadyUsed, InvalidCode, Accepted: a malformed code
\* (not a string of exactly six decimal digits) yields InvalidInput even
\* when the secret is unset; else an unset secret yields
\* ServerMisconfigured; else a consumed (currentWindow, session) yields
\* AlreadyUsed, also for a code outside the accepted set; else a code
\* outside the accepted set yields InvalidCode; else Accepted.
OutcomePrecedence ==
  [][VerifyStep =>
       reply'.res.status =
         IF ~WellFormed(reply'.code) THEN 400
         ELSE IF PROCTOR_SEED = <<>> THEN 500
         ELSE IF RowsOf(used_codes, Win, reply'.sid) # {} THEN 409
         ELSE IF reply'.code.v \notin Compared(Win) THEN 401
         ELSE 200]_vars

\* C19 -- Requests without a session cookie are never rejected as replays:
\* each is given a newly generated session id, one that no row carries,
\* before the lookup, so it is never answered AlreadyUsed; and a code of the
\* accepted list submitted without a cookie is Accepted every time, each
\* time adding one row.
AnonNeverReplay ==
  [][(VerifyStep /\ reply'.setCookie) =>
       /\ reply'.sid \notin {r.sid : r \in used_codes}
       /\ reply'.sid \notin {k[1] : k \in DOMAIN accepts}
       /\ reply'.res.status # 409
       /\ (/\ PROCTOR_SEED # <<>>
           /\ reply'.code.t = "string"
           /\ reply'.code.v \in Compared(Win))
          => /\ reply'.res.status = 200
             /\ Cardinality(used_codes') = Cardinality(used_codes) + 1
             /\ RowsOf(used_codes', Win, reply'.sid) # {}]_vars

\* The same code was accepted three times in one window, for three
\* session ids, and the table holds three rows of that window.
AnonAcceptedThrice ==
  /\ reply.kind = "verify"
  /\ reply.setCookie
  /\ reply.res.status = 200
  /\ Cardinality({k \in DOMAIN accepts :
                    k[2] = Win /\ k[3] = reply.code.v}) = 3
  /\ Cardinality({r \in used_codes : r.window = Win}) = 3

====
